---------------------------- MODULE Spec2Model ----------------------------
(***************************************************************************)
(* The per-room game engine of the Skull server (server.js): the room      *)
(* record, the lobby handlers, the round engine, the turn deadline and the *)
(* deferred presentation callbacks.                                        *)
(*                                                                         *)
(* Seat indices are 0-based as in the source, -1 is the "none" sentinel.   *)
(* A room value r is a record holding every field of the source's room     *)
(* object; each handler of the source is an operator from room to room,    *)
(* composed as the source composes its calls, and each socket event or     *)
(* timer expiry is one action that commits the handler's result.           *)
(*                                                                         *)
(* Node's timer queue is the sequence `timers`, in scheduling order: the   *)
(* room's cancelable turn deadline (room.turnTimer, 20 s) and the bare     *)
(* setTimeout presentation callbacks (0.8 s, 1.2 s, 1.5 s, 2 s), which     *)
(* nothing cancels.  The event log (room.log), colorIndex and chat are     *)
(* write-only for the engine and are not modelled.                         *)
(***************************************************************************)
EXTENDS Integers, Sequences, FiniteSets, TLC

(***************************************************************************)
(* Bounds of the model.                                                    *)
(***************************************************************************)
\* most seats a lobby is let to grow to (the source allows RoomCapacity)
MaxSeats == 2
\* most start-game events in one behaviour
MaxGames == 2
\* most rounds of one game: a behaviour is cut when a later round starts
MaxRounds == 1
\* most non-tokens (undefined) on the stacks at one time
MaxJunk == 1
\* most connection identities in use or remembered by the room at one time
MaxConns == 3

(***************************************************************************)
(* Program constants.                                                      *)
(***************************************************************************)
RoomCapacity == 6
WinTarget == 2
\* a bid amount that is no number ("abc", {}, or no argument to raiseBid): it
\* coerces to NaN, and every comparison with it is false
NaN == -1000

InitialCards == <<"rose", "rose", "rose", "skull">>
\* what [].splice(i, 1)[0] yields: no token
Undefined == "undefined"

NoTimer == [kind |-> "none", a |-> -1, b |-> -1]

VARIABLES
    players,              \* room.players: sequence of player records
    hostId,               \* room.hostId
    started,              \* room.started
    phase,                \* room.phase ("none" for null)
    currentPlayer,        \* room.currentPlayer
    currentBid,           \* room.currentBid
    highestBidder,        \* room.highestBidder
    flipsRemaining,       \* room.flipsRemaining
    totalCoastersOnTable, \* room.totalCoastersOnTable
    roundNum,             \* room.roundNum
    firstPlacement,       \* room.firstPlacement
    nextRoundStarter,     \* room.nextRoundStarter
    penaltyPlayer,        \* room.penaltyPlayer
    revealedCards,        \* room.revealedCards
    timers,               \* pending setTimeout callbacks, in scheduling order
    winnerIndex,          \* winnerIndex of the 'gameOver' notice the last step emitted, -1 if none
    joined,               \* live sockets whose socket.roomCode is this room
    games,                \* start-game events so far
    crashed,              \* an uncaught TypeError ended the process
    replay                \* events handled so far of a replayed run (SpecRace)

vars == <<players, hostId, started, phase, currentPlayer, currentBid,
          highestBidder, flipsRemaining, totalCoastersOnTable, roundNum,
          firstPlacement, nextRoundStarter, penaltyPlayer, revealedCards,
          timers, winnerIndex, joined, games, crashed, replay>>

\* the room object as one value
Room ==
    [players |-> players, hostId |-> hostId, started |-> started,
     phase |-> phase, currentPlayer |-> currentPlayer,
     currentBid |-> currentBid, highestBidder |-> highestBidder,
     flipsRemaining |-> flipsRemaining,
     totalCoastersOnTable |-> totalCoastersOnTable, roundNum |-> roundNum,
     firstPlacement |-> firstPlacement,
     nextRoundStarter |-> nextRoundStarter, penaltyPlayer |-> penaltyPlayer,
     revealedCards |-> revealedCards, timers |-> timers,
     winnerIndex |-> -1, crashed |-> FALSE]

(***************************************************************************)
(* Helpers.                                                                *)
(***************************************************************************)
NumSeats(r) == Len(r.players)
Seats(r) == 0 .. (NumSeats(r) - 1)
P(r, i) == r.players[i + 1]
HasSeat(r, i) == i \in Seats(r)

Min(S) == CHOOSE x \in S : \A y \in S : x <= y

RemoveAt(s, k) == [j \in 1 .. (Len(s) - 1) |-> IF j < k THEN s[j] ELSE s[j + 1]]

RECURSIVE SumStacks(_, _)
SumStacks(ps, k) == IF k = 0 THEN 0 ELSE Len(ps[k].stack) + SumStacks(ps, k - 1)

newPlayer(id, name) ==
    [id |-> id, name |-> name, cards |-> <<>>, hand |-> <<>>, stack |-> <<>>,
     wins |-> 0, eliminated |-> FALSE, passed |-> FALSE, connected |-> TRUE]

\* room.players.findIndex(p => p.id === socketId)
playerIndex(r, socketId) ==
    LET hits == {i \in Seats(r) : P(r, i).id = socketId}
    IN  IF hits = {} THEN -1 ELSE Min(hits)

activePlayers(r) == {i \in Seats(r) : ~P(r, i).eliminated}

findNextActive(r, from) ==
    LET n == NumSeats(r)
        hits == {i \in 0 .. (n - 1) : ~P(r, (from + i) % n).eliminated}
    IN  IF hits = {} THEN -1 ELSE (from + Min(hits)) % n

nextActiveUnpassed(r, from) ==
    LET n == NumSeats(r)
        hits == {i \in 1 .. n : /\ ~P(r, (from + i) % n).eliminated
                                /\ ~P(r, (from + i) % n).passed}
    IN  IF hits = {} THEN -1 ELSE (from + Min(hits)) % n

countOnTable(r) == SumStacks(r.players, NumSeats(r))

\* JavaScript's relational operators on a possibly non-numeric operand
IsNum(x) == x # NaN
JsLe(x, y) == IsNum(x) /\ IsNum(y) /\ x <= y
JsLt(x, y) == IsNum(x) /\ IsNum(y) /\ x < y
JsGt(x, y) == IsNum(x) /\ IsNum(y) /\ x > y
JsGe(x, y) == IsNum(x) /\ IsNum(y) /\ x >= y
\* x-- on a possibly non-numeric value
JsDec(x) == IF IsNum(x) THEN x - 1 ELSE NaN
\* the start argument of Array.prototype.splice: a non-number counts as 0
SpliceStart(x) == IF IsNum(x) THEN x ELSE 0

(***************************************************************************)
(* The timer queue.                                                        *)
(***************************************************************************)
IsTurnTimer(e) == e.kind \in {"roundTurn", "placeTurn", "bidTurn"}

Delay(e) ==
    CASE e.kind = "forcedBid"        -> 800
      [] e.kind = "challengeSuccess" -> 1200
      [] e.kind = "penalize"         -> 1500
      [] e.kind = "startRound"       -> 2000
      [] OTHER                       -> 20000

\* the pending turn deadline (room.turnTimer), NoTimer for null
TurnTimerOf(q) ==
    IF \E k \in 1 .. Len(q) : IsTurnTimer(q[k])
    THEN q[CHOOSE k \in 1 .. Len(q) : IsTurnTimer(q[k])]
    ELSE NoTimer

\* a timer set earlier with a delay no longer expires first
CanFire(q, k) == \A j \in 1 .. (k - 1) : Delay(q[j]) > Delay(q[k])

clearTurnTimer(r) ==
    [r EXCEPT !.timers = SelectSeq(@, LAMBDA e : ~IsTurnTimer(e))]

startTurnTimer(r, callback) ==
    [clearTurnTimer(r) EXCEPT !.timers = Append(@, callback)]

\* a bare setTimeout(callback, ms)
setTimeout(r, callback) == [r EXCEPT !.timers = Append(@, callback)]

\* an uncaught TypeError (a property read on undefined)
TypeError(r) == [r EXCEPT !.crashed = TRUE]


(***************************************************************************)
(* Game logic: one operator per function of the source.                    *)
(***************************************************************************)
gameOver(r, winnerIdx) ==
    LET r1 == [clearTurnTimer(r) EXCEPT !.phase = "gameover"]
    IN  IF ~HasSeat(r, winnerIdx)
        THEN TypeError(r1)                       \* winner.name on undefined
        ELSE [r1 EXCEPT !.winnerIndex = winnerIdx]

\* startFlipping owing a flip for every token on the table instead of the bid
startFlipping_AllTokens(r) ==
    LET r1 == clearTurnTimer(r)
    IN  IF ~HasSeat(r, r.highestBidder)
        THEN TypeError(r1)
        ELSE [r1 EXCEPT !.phase = "flipping",
                        !.flipsRemaining = countOnTable(r),
                        !.currentPlayer = r.highestBidder,
                        !.revealedCards = <<>>]

startFlipping(r) ==
    LET r1 == clearTurnTimer(r)
    IN  IF ~HasSeat(r, r.highestBidder)
        THEN TypeError(r1)                       \* bidder.name on undefined
        ELSE [r1 EXCEPT !.phase = "flipping",
                        !.flipsRemaining = r.currentBid,
                        !.currentPlayer = r.highestBidder,
                        !.revealedCards = <<>>]

\* checkBiddingEnd with the test of line 330 left out: every check ends the
\* bidding
checkBiddingEnd_AlwaysFlip(r) ==
    startFlipping([r EXCEPT !.totalCoastersOnTable = countOnTable(r)])

checkBiddingEnd(r) ==
    LET r1 == [r EXCEPT !.totalCoastersOnTable = countOnTable(r)]
        active == {i \in Seats(r) : /\ ~P(r, i).eliminated
                                    /\ ~P(r, i).passed
                                    /\ i # r.highestBidder}
    IN  IF active = {} \/ JsGe(r1.currentBid, r1.totalCoastersOnTable)
        THEN startFlipping(r1)
        ELSE r1

startBidTimer(r) == startTurnTimer(r, [kind |-> "bidTurn", a |-> -1, b |-> -1])

\* the bidder doesn't pass themselves
players_passed_set_bidder(r, bidderIdx) ==
    [r EXCEPT !.players = [k \in 1 .. Len(r.players) |->
        IF k - 1 = bidderIdx THEN [r.players[k] EXCEPT !.passed = FALSE]
                             ELSE r.players[k]]]

\* Math.max(1, Math.min(amount || 1, maxBid)); a non-number here is a truthy
\* one ("abc"): a missing amount counts as 0 does
ClampBid(amount, maxBid) ==
    LET a1 == IF amount = 0 THEN 1 ELSE amount
        m  == IF a1 = NaN THEN NaN ELSE IF a1 < maxBid THEN a1 ELSE maxBid
    IN  IF m = NaN THEN NaN ELSE IF m > 1 THEN m ELSE 1

handleStartBid(r, pIdx, amount) ==
    IF r.phase # "placing" THEN r
    ELSE IF r.currentPlayer # pIdx THEN r
    ELSE IF r.firstPlacement THEN r
    ELSE IF ~HasSeat(r, pIdx) THEN TypeError(r)  \* p.name on undefined
    ELSE
      LET maxBid == countOnTable(r)
          r1 == [r EXCEPT !.totalCoastersOnTable = maxBid,
                          !.phase = "bidding",
                          !.currentBid = ClampBid(amount, maxBid),
                          !.highestBidder = pIdx,
                          !.players = [k \in 1 .. Len(r.players) |->
                                          [r.players[k] EXCEPT !.passed = FALSE]]]
          r2 == players_passed_set_bidder(r1, pIdx)
          r3 == [r2 EXCEPT !.currentPlayer = -1]
      IN  checkBiddingEnd(startBidTimer(r3))

advancePlacing(r) ==
    LET n1 == nextActiveUnpassed(r, r.currentPlayer)
        next == IF n1 = -1 THEN findNextActive(r, 0) ELSE n1
        r1 == [r EXCEPT !.currentPlayer = next]
    IN  IF /\ HasSeat(r1, next)
           /\ ~P(r1, next).eliminated
           /\ Len(P(r1, next).hand) = 0
           /\ r1.phase = "placing"
           /\ ~r1.firstPlacement
        THEN setTimeout(clearTurnTimer(r1),
                        [kind |-> "forcedBid", a |-> next, b |-> -1])
        ELSE startTurnTimer(r1, [kind |-> "placeTurn", a |-> next, b |-> -1])

\* handlePlace with the hand.splice left out: the token is pushed on the stack
\* and stays in the hand as well
handlePlace_NoSplice(r, pIdx, cardIndex) ==
    IF r.phase # "placing" THEN r
    ELSE IF r.currentPlayer # pIdx THEN r
    ELSE IF ~HasSeat(r, pIdx) THEN TypeError(r)
    ELSE IF JsLt(cardIndex, 0) \/ JsGe(cardIndex, Len(P(r, pIdx).hand)) THEN r
    ELSE
      LET p == P(r, pIdx)
          at == SpliceStart(cardIndex) + 1
          card == IF at <= Len(p.hand) THEN p.hand[at] ELSE Undefined
          r1 == [r EXCEPT !.players[pIdx + 1].stack = Append(@, card)]
          r2 == [r1 EXCEPT !.totalCoastersOnTable = countOnTable(r1)]
          allPlaced == \A i \in Seats(r2) :
                          P(r2, i).eliminated \/ Len(P(r2, i).stack) > 0
          r3 == IF allPlaced THEN [r2 EXCEPT !.firstPlacement = FALSE] ELSE r2
      IN  advancePlacing(r3)

handlePlace(r, pIdx, cardIndex) ==
    IF r.phase # "placing" THEN r
    ELSE IF r.currentPlayer # pIdx THEN r
    ELSE IF ~HasSeat(r, pIdx) THEN TypeError(r)  \* p.hand on undefined
    ELSE IF JsLt(cardIndex, 0) \/ JsGe(cardIndex, Len(P(r, pIdx).hand)) THEN r
    ELSE
      LET p == P(r, pIdx)
          at == SpliceStart(cardIndex) + 1
          \* splice on an empty hand removes nothing and yields undefined
          card == IF at <= Len(p.hand) THEN p.hand[at] ELSE Undefined
          r1 == [r EXCEPT !.players[pIdx + 1].hand =
                              IF at <= Len(@) THEN RemoveAt(@, at) ELSE @,
                          !.players[pIdx + 1].stack = Append(@, card)]
          r2 == [r1 EXCEPT !.totalCoastersOnTable = countOnTable(r1)]
          allPlaced == \A i \in Seats(r2) :
                          P(r2, i).eliminated \/ Len(P(r2, i).stack) > 0
          r3 == IF allPlaced THEN [r2 EXCEPT !.firstPlacement = FALSE] ELSE r2
      IN  advancePlacing(r3)

startRound(r) ==
    LET r1 == [clearTurnTimer(r) EXCEPT
                 !.roundNum = @ + 1,
                 !.phase = "placing",
                 !.currentBid = 0,
                 !.highestBidder = -1,
                 !.flipsRemaining = 0,
                 !.totalCoastersOnTable = 0,
                 !.firstPlacement = TRUE,
                 !.revealedCards = <<>>,
                 !.players = [k \in 1 .. Len(r.players) |->
                     IF ~r.players[k].eliminated
                     THEN [r.players[k] EXCEPT !.hand = r.players[k].cards,
                                               !.stack = <<>>,
                                               !.passed = FALSE]
                     ELSE r.players[k]]]
        nrs == r1.nextRoundStarter
    IN  IF nrs >= 0 /\ ~HasSeat(r1, nrs)
        THEN TypeError(r1)      \* room.players[nextRoundStarter].eliminated
        ELSE
          LET first == IF nrs >= 0 /\ ~P(r1, nrs).eliminated
                       THEN nrs
                       ELSE findNextActive(r1, (r1.roundNum - 1) % NumSeats(r1))
              r2 == [r1 EXCEPT !.currentPlayer = first,
                               !.nextRoundStarter = -1]
          IN  startTurnTimer(r2, [kind |-> "roundTurn", a |-> first, b |-> -1])

startGame(r) ==
    startRound([r EXCEPT !.started = TRUE,
                         !.roundNum = 0,
                         !.players = [k \in 1 .. Len(r.players) |->
                             [r.players[k] EXCEPT !.cards = InitialCards,
                                                  !.wins = 0,
                                                  !.eliminated = FALSE]]])

handleRaiseBid(r, pIdx, amount) ==
    IF r.phase # "bidding" THEN r
    ELSE IF P(r, pIdx).passed \/ P(r, pIdx).eliminated THEN r
    ELSE IF pIdx = r.highestBidder THEN r
    ELSE
      LET r1 == [r EXCEPT !.totalCoastersOnTable = countOnTable(r)]
      IN  IF JsLe(amount, r1.currentBid) \/ JsGt(amount, r1.totalCoastersOnTable)
          THEN r1
          ELSE checkBiddingEnd(startBidTimer(
                   [r1 EXCEPT !.currentBid = amount, !.highestBidder = pIdx]))

handlePass(r, pIdx) ==
    IF r.phase # "bidding" THEN r
    ELSE IF P(r, pIdx).passed \/ P(r, pIdx).eliminated THEN r
    ELSE IF pIdx = r.highestBidder THEN r
    ELSE checkBiddingEnd([r EXCEPT !.players[pIdx + 1].passed = TRUE])

\* handleFlip without the own-stack-first rule
handleFlip_AnyTarget(r, flipperIdx, targetPlayerIdx) ==
    IF r.phase # "flipping" THEN r
    ELSE IF JsLe(r.flipsRemaining, 0) THEN r
    ELSE IF flipperIdx # r.highestBidder THEN r
    ELSE IF r.currentPlayer # flipperIdx THEN r
    ELSE IF ~HasSeat(r, targetPlayerIdx) THEN r
    ELSE IF P(r, targetPlayerIdx).eliminated
            \/ Len(P(r, targetPlayerIdx).stack) = 0 THEN r
    ELSE
      LET st == P(r, targetPlayerIdx).stack
          card == st[Len(st)]
          r1 == [r EXCEPT !.players[targetPlayerIdx + 1].stack =
                              SubSeq(@, 1, Len(@) - 1)]
          r2 == [r1 EXCEPT !.totalCoastersOnTable = countOnTable(r1),
                           !.flipsRemaining = JsDec(@),
                           !.revealedCards = Append(@,
                               [playerIndex |-> targetPlayerIdx, card |-> card,
                                playerName |-> P(r, targetPlayerIdx).name])]
      IN  IF card = "skull"
          THEN setTimeout([r2 EXCEPT !.phase = "flip_result"],
                          [kind |-> "penalize", a |-> flipperIdx,
                           b |-> targetPlayerIdx])
          ELSE IF JsLe(r2.flipsRemaining, 0)
          THEN setTimeout([r2 EXCEPT !.phase = "flip_result"],
                          [kind |-> "challengeSuccess", a |-> flipperIdx,
                           b |-> -1])
          ELSE r2

handleFlip(r, flipperIdx, targetPlayerIdx) ==
    IF r.phase # "flipping" THEN r
    ELSE IF JsLe(r.flipsRemaining, 0) THEN r
    ELSE IF flipperIdx # r.highestBidder THEN r
    ELSE IF r.currentPlayer # flipperIdx THEN r
    ELSE IF ~HasSeat(r, targetPlayerIdx) THEN r
    ELSE IF P(r, targetPlayerIdx).eliminated
            \/ Len(P(r, targetPlayerIdx).stack) = 0 THEN r
    ELSE IF targetPlayerIdx # flipperIdx /\ Len(P(r, flipperIdx).stack) > 0 THEN r
    ELSE
      LET st == P(r, targetPlayerIdx).stack
          card == st[Len(st)]
          r1 == [r EXCEPT !.players[targetPlayerIdx + 1].stack =
                              SubSeq(@, 1, Len(@) - 1)]
          r2 == [r1 EXCEPT !.totalCoastersOnTable = countOnTable(r1),
                           !.flipsRemaining = JsDec(@),
                           !.revealedCards = Append(@,
                               [playerIndex |-> targetPlayerIdx, card |-> card,
                                playerName |-> P(r, targetPlayerIdx).name])]
      IN  IF card = "skull"
          THEN setTimeout([r2 EXCEPT !.phase = "flip_result"],
                          [kind |-> "penalize", a |-> flipperIdx,
                           b |-> targetPlayerIdx])
          ELSE IF JsLe(r2.flipsRemaining, 0)
          THEN setTimeout([r2 EXCEPT !.phase = "flip_result"],
                          [kind |-> "challengeSuccess", a |-> flipperIdx,
                           b |-> -1])
          ELSE r2

challengeSuccess(r, pIdx) ==
    IF ~HasSeat(r, pIdx) THEN TypeError(r)       \* p.wins on undefined
    ELSE
      LET r1 == [r EXCEPT !.players[pIdx + 1].wins = @ + 1,
                          !.nextRoundStarter = pIdx]
      IN  IF P(r1, pIdx).wins >= WinTarget
          THEN gameOver(r1, pIdx)
          ELSE setTimeout(r1, [kind |-> "startRound", a |-> -1, b |-> -1])

\* doCardRemoval that never sets the eliminated flag
doCardRemoval_NoEliminate(r, loserIdx, chosenIdx, rnd) ==
    IF ~HasSeat(r, loserIdx) THEN TypeError(r)   \* p.cards on undefined
    ELSE
      LET p == P(r, loserIdx)
          removeIdx == IF JsGe(chosenIdx, 0) /\ JsLt(chosenIdx, Len(p.cards))
                       THEN chosenIdx ELSE rnd
          r1 == IF Len(p.cards) > 0
                THEN [r EXCEPT !.players[loserIdx + 1].cards =
                                   RemoveAt(@, removeIdx + 1)]
                ELSE r
          r2 == IF Len(P(r1, loserIdx).cards) = 0
                THEN [r1 EXCEPT !.players[loserIdx + 1].hand = <<>>,
                                !.players[loserIdx + 1].stack = <<>>]
                ELSE r1
          r3 == [r2 EXCEPT !.penaltyPlayer = -1]
          alive == activePlayers(r3)
      IN  IF Cardinality(alive) <= 1
          THEN gameOver(r3, IF alive = {} THEN -1 ELSE Min(alive))
          ELSE setTimeout(r3, [kind |-> "startRound", a |-> -1, b |-> -1])

\* removeIdx: chosenIdx when in range, else Math.floor(Math.random() * length),
\* the draw being the parameter rnd
doCardRemoval(r, loserIdx, chosenIdx, rnd) ==
    IF ~HasSeat(r, loserIdx) THEN TypeError(r)   \* p.cards on undefined
    ELSE
      LET p == P(r, loserIdx)
          removeIdx == IF JsGe(chosenIdx, 0) /\ JsLt(chosenIdx, Len(p.cards))
                       THEN chosenIdx ELSE rnd
          r1 == IF Len(p.cards) > 0
                THEN [r EXCEPT !.players[loserIdx + 1].cards =
                                   RemoveAt(@, removeIdx + 1)]
                ELSE r
          r2 == IF Len(P(r1, loserIdx).cards) = 0
                THEN [r1 EXCEPT !.players[loserIdx + 1].eliminated = TRUE,
                                !.players[loserIdx + 1].hand = <<>>,
                                !.players[loserIdx + 1].stack = <<>>]
                ELSE r1
          r3 == [r2 EXCEPT !.penaltyPlayer = -1]
          alive == activePlayers(r3)
      IN  IF Cardinality(alive) <= 1
          THEN gameOver(r3, IF alive = {} THEN -1 ELSE Min(alive))
          ELSE setTimeout(r3, [kind |-> "startRound", a |-> -1, b |-> -1])

penalize(r, loserIdx, skullerIdx, rnd) ==
    LET r1 == [r EXCEPT !.nextRoundStarter =
                  IF loserIdx = skullerIdx THEN loserIdx ELSE skullerIdx]
    IN  IF ~HasSeat(r, loserIdx) THEN TypeError(r1)   \* p.cards on undefined
        ELSE IF loserIdx = skullerIdx /\ Len(P(r1, loserIdx).cards) > 1
        THEN [r1 EXCEPT !.phase = "penalty", !.penaltyPlayer = loserIdx]
        ELSE doCardRemoval(r1, loserIdx, -1, rnd)

handlePenaltyDiscard(r, pIdx, cardIndex, rnd) ==
    IF r.phase # "penalty" THEN r
    ELSE IF r.penaltyPlayer # pIdx THEN r
    ELSE IF JsLt(cardIndex, 0) \/ JsGe(cardIndex, Len(P(r, pIdx).cards)) THEN r
    ELSE doCardRemoval(r, pIdx, cardIndex, rnd)


(***************************************************************************)
(* Timer callbacks.                                                        *)
(***************************************************************************)
\* the deadline set by startRound (lines 198-204)
roundTurnCallback(r, firstPlayer) ==
    IF r.phase # "placing" \/ r.currentPlayer # firstPlayer THEN r
    ELSE IF ~HasSeat(r, firstPlayer) THEN TypeError(r)   \* p.hand on undefined
    ELSE IF Len(P(r, firstPlayer).hand) > 0 THEN handlePlace(r, firstPlayer, 0)
    ELSE r

\* the deadline set by advancePlacing (lines 243-251)
placeTurnCallback(r, next) ==
    IF r.phase # "placing" \/ r.currentPlayer # next THEN r
    ELSE IF ~HasSeat(r, next) THEN TypeError(r)   \* nextPlayer is undefined
    ELSE IF ~r.firstPlacement /\ Len(P(r, next).stack) > 0
         THEN handleStartBid(r, next, 1)
    ELSE IF Len(P(r, next).hand) > 0 THEN handlePlace(r, next, 0)
    ELSE r

\* the bidding deadline's callback without its phase check
bidTurnCallback_NoGuard(r) ==
    checkBiddingEnd(
      [r EXCEPT !.players = [k \in 1 .. Len(r.players) |->
          IF /\ ~r.players[k].eliminated
             /\ ~r.players[k].passed
             /\ k - 1 # r.highestBidder
          THEN [r.players[k] EXCEPT !.passed = TRUE]
          ELSE r.players[k]]])

\* the deadline set by startBidTimer (lines 286-296)
bidTurnCallback(r) ==
    IF r.phase # "bidding" THEN r
    ELSE checkBiddingEnd(
           [r EXCEPT !.players = [k \in 1 .. Len(r.players) |->
               IF /\ ~r.players[k].eliminated
                  /\ ~r.players[k].passed
                  /\ k - 1 # r.highestBidder
               THEN [r.players[k] EXCEPT !.passed = TRUE]
               ELSE r.players[k]]])

\* the callback of the turn deadline e (the callback argument of line 98)
turnCallback(r, e) ==
    CASE e.kind = "roundTurn" -> roundTurnCallback(r, e.a)
      [] e.kind = "placeTurn" -> placeTurnCallback(r, e.a)
      [] OTHER                -> bidTurnCallback(r)

\* the forced bid set by advancePlacing (lines 236-240)
forcedBidCallback(r, next) ==
    IF r.phase = "placing" /\ r.currentPlayer = next
    THEN handleStartBid(r, next, 1)
    ELSE r

(***************************************************************************)
(* Lobby handlers.                                                         *)
(***************************************************************************)
joinRoom(r, socketId, name) ==
    IF r.started
    THEN LET hits == {i \in Seats(r) : P(r, i).name = name /\ ~P(r, i).connected}
         IN  IF hits # {}
             THEN [r EXCEPT !.players[Min(hits) + 1].id = socketId,
                            !.players[Min(hits) + 1].connected = TRUE]
             ELSE r
    ELSE IF NumSeats(r) >= RoomCapacity THEN r
    ELSE IF \E i \in Seats(r) : P(r, i).name = name THEN r
    ELSE [r EXCEPT !.players = Append(@, newPlayer(socketId, name))]

playAgain(r, socketId) ==
    IF socketId # r.hostId THEN r
    ELSE [r EXCEPT !.started = FALSE,
                   !.phase = "none",
                   !.revealedCards = <<>>,
                   !.players = [k \in 1 .. Len(r.players) |->
                       [r.players[k] EXCEPT !.cards = <<>>,
                                            !.hand = <<>>,
                                            !.stack = <<>>,
                                            !.wins = 0,
                                            !.eliminated = FALSE,
                                            !.passed = FALSE]]]

\* disconnect with the started test of line 619 left out
disconnect_AlwaysRemove(r, socketId) ==
    LET pIdx == playerIndex(r, socketId)
    IN  IF pIdx = -1 THEN r
        ELSE LET r1 == [r EXCEPT !.players = RemoveAt(@, pIdx + 1)]
             IN  IF NumSeats(r1) = 0 THEN r1
                 ELSE IF socketId = r.hostId
                 THEN [r1 EXCEPT !.hostId = P(r1, 0).id]
                 ELSE r1

disconnect(r, socketId) ==
    LET pIdx == playerIndex(r, socketId)
    IN  IF pIdx = -1 THEN r
        ELSE IF ~r.started
        THEN LET r1 == [r EXCEPT !.players = RemoveAt(@, pIdx + 1)]
             IN  IF NumSeats(r1) = 0 THEN r1
                 ELSE IF socketId = r.hostId
                 THEN [r1 EXCEPT !.hostId = P(r1, 0).id]
                 ELSE r1
        ELSE [r EXCEPT !.players[pIdx + 1].connected = FALSE]

(***************************************************************************)
(* The view sent to one socket (stateForPlayer).  The code, the log and    *)
(* the deadline's wall-clock time carry no token and are left out.         *)
(***************************************************************************)
\* JavaScript's null in a field that otherwise holds a list of tokens
Null == <<"null">>

\* stateForPlayer showing every hand
stateForPlayer_AllHands(r, socketId) ==
    LET myIdx == playerIndex(r, socketId)
    IN  [started |-> r.started,
         players |-> [k \in 1 .. Len(r.players) |->
             [name |-> r.players[k].name,
              handCount |-> Len(r.players[k].hand),
              hand |-> r.players[k].hand,
              stackCount |-> Len(r.players[k].stack),
              totalCards |-> Len(r.players[k].cards),
              wins |-> r.players[k].wins,
              eliminated |-> r.players[k].eliminated,
              passed |-> r.players[k].passed,
              connected |-> r.players[k].connected,
              isMe |-> (k - 1 = myIdx)]],
         hostId |-> r.hostId,
         isHost |-> (socketId = r.hostId),
         myIndex |-> myIdx,
         phase |-> r.phase,
         currentPlayer |-> r.currentPlayer,
         currentBid |-> r.currentBid,
         highestBidder |-> r.highestBidder,
         flipsRemaining |-> r.flipsRemaining,
         totalCoastersOnTable |-> r.totalCoastersOnTable,
         roundNum |-> r.roundNum,
         firstPlacement |-> r.firstPlacement,
         revealedCards |-> r.revealedCards,
         penaltyPlayer |-> r.penaltyPlayer,
         penaltyCards |-> IF r.phase = "penalty" /\ r.penaltyPlayer = myIdx
                          THEN IF HasSeat(r, myIdx) THEN P(r, myIdx).cards
                               ELSE <<"TypeError">>
                          ELSE Null]

stateForPlayer(r, socketId) ==
    LET myIdx == playerIndex(r, socketId)
    IN  [started |-> r.started,
         players |-> [k \in 1 .. Len(r.players) |->
             [name |-> r.players[k].name,
              handCount |-> Len(r.players[k].hand),
              hand |-> IF k - 1 = myIdx THEN r.players[k].hand ELSE Null,
              stackCount |-> Len(r.players[k].stack),
              totalCards |-> Len(r.players[k].cards),
              wins |-> r.players[k].wins,
              eliminated |-> r.players[k].eliminated,
              passed |-> r.players[k].passed,
              connected |-> r.players[k].connected,
              isMe |-> (k - 1 = myIdx)]],
         hostId |-> r.hostId,
         isHost |-> (socketId = r.hostId),
         myIndex |-> myIdx,
         phase |-> r.phase,
         currentPlayer |-> r.currentPlayer,
         currentBid |-> r.currentBid,
         highestBidder |-> r.highestBidder,
         flipsRemaining |-> r.flipsRemaining,
         totalCoastersOnTable |-> r.totalCoastersOnTable,
         roundNum |-> r.roundNum,
         firstPlacement |-> r.firstPlacement,
         revealedCards |-> r.revealedCards,
         penaltyPlayer |-> r.penaltyPlayer,
         \* room.players[myIdx].cards throws when the socket has no seat
         penaltyCards |-> IF r.phase = "penalty" /\ r.penaltyPlayer = myIdx
                          THEN IF HasSeat(r, myIdx) THEN P(r, myIdx).cards
                               ELSE <<"TypeError">>
                          ELSE Null]

(***************************************************************************)
(* Inputs.                                                                 *)
(***************************************************************************)
\* a card index: a non-number (no argument, "abc"), every index of the
\* sequence, one below and one above
CardIndices(cards) == {NaN} \cup (-1 .. Len(cards))
\* a bid amount: a non-number, and -1 .. one more than the table
Amounts == {NaN} \cup (-1 .. (countOnTable(Room) + 1))
\* a flip target: every seat, one below and one above
Targets == -1 .. Len(players)
\* Socket ids and display names are opaque: only their equality is ever
\* tested.  A new connection takes the least id nothing refers to, and a
\* joiner picks a name in use or the least one not in use.
UsedIds == joined \cup {players[k].id : k \in 1 .. Len(players)} \cup {hostId}
FreshConn == Min((1 .. (Cardinality(UsedIds) + 1)) \ UsedIds)
UsedNames == {players[k].name : k \in 1 .. Len(players)}
Names == UsedNames \cup {Min((1 .. (Cardinality(UsedNames) + 1)) \ UsedNames)}

(***************************************************************************)
(* Actions: one per socket event and one per timer callback.               *)
(***************************************************************************)
\* A run replayed from the fresh room: two more players join, and four
\* times over the host starts a game, every seat places its first token (seat
\* 1 its skull), seat 0 bids the whole table, flips its own rose and then
\* seat 1's skull, and resets the room with play-again while the penalty of
\* that flip is still pending; then the host starts a fifth game.  All of it
\* takes no timer, so the four penalties are pending when the fifth game
\* starts.
QuickGame ==
    <<[op |-> "startGame", s |-> 1, x |-> 0],
      [op |-> "placeCard", s |-> 1, x |-> 0],
      [op |-> "placeCard", s |-> 2, x |-> 3],
      [op |-> "placeCard", s |-> 3, x |-> 0],
      [op |-> "startBid", s |-> 1, x |-> 3],
      [op |-> "flipCoaster", s |-> 1, x |-> 0],
      [op |-> "flipCoaster", s |-> 1, x |-> 1],
      [op |-> "playAgain", s |-> 1, x |-> 0]>>

Replay ==
    <<[op |-> "joinRoom", s |-> 2, x |-> 2],
      [op |-> "joinRoom", s |-> 3, x |-> 3]>>
    \o QuickGame \o QuickGame \o QuickGame \o QuickGame
    \o <<[op |-> "startGame", s |-> 1, x |-> 0]>>

\* events explored after the replayed run
RaceSteps == 8
ReplayEnd == Len(Replay) + RaceSteps

CommitRoom(r) ==
    /\ replay' = IF replay < ReplayEnd THEN replay + 1 ELSE replay
    /\ IF r.crashed
       THEN /\ crashed' = TRUE
            /\ UNCHANGED <<players, hostId, started, phase, currentPlayer,
                           currentBid, highestBidder, flipsRemaining,
                           totalCoastersOnTable, roundNum, firstPlacement,
                           nextRoundStarter, penaltyPlayer, revealedCards,
                           timers, winnerIndex>>
       ELSE /\ players' = r.players
            /\ hostId' = r.hostId
            /\ started' = r.started
            /\ phase' = r.phase
            /\ currentPlayer' = r.currentPlayer
            /\ currentBid' = r.currentBid
            /\ highestBidder' = r.highestBidder
            /\ flipsRemaining' = r.flipsRemaining
            /\ totalCoastersOnTable' = r.totalCoastersOnTable
            /\ roundNum' = r.roundNum
            /\ firstPlacement' = r.firstPlacement
            /\ nextRoundStarter' = r.nextRoundStarter
            /\ penaltyPlayer' = r.penaltyPlayer
            /\ revealedCards' = r.revealedCards
            /\ timers' = r.timers
            /\ winnerIndex' = r.winnerIndex
            /\ crashed' = FALSE

\* A handler's result becomes the next state.  A handler that returns early
\* leaves the room as it was: that event is a stuttering step and no step of
\* the action.
Commit(result) == \E r \in {result} : r # Room /\ CommitRoom(r)

\* the room exists (rooms.get(code)) and the process runs
Live == ~crashed /\ Len(players) > 0

\* getRoom(socket), room.started and playerIndex(room, socket.id) !== -1
InGame(s) == Live /\ s \in joined /\ started /\ playerIndex(Room, s) # -1

JoinRoom(s, name) ==
    /\ Live
    /\ s = FreshConn
    /\ started \/ Len(players) < MaxSeats
    /\ joinRoom(Room, s, name) # Room
    /\ Commit(joinRoom(Room, s, name))
    /\ joined' = joined \cup {s}
    /\ UNCHANGED games

StartGame(s) ==
    /\ Live /\ s \in joined
    /\ ~started
    /\ s = hostId
    /\ Len(players) >= 2
    /\ Commit(startGame(Room))
    /\ games' = games + 1
    /\ UNCHANGED joined

PlaceCard(s, cardIndex) ==
    /\ phase = "placing"
    /\ InGame(s)
    /\ Commit(handlePlace(Room, playerIndex(Room, s), cardIndex))
    /\ UNCHANGED <<joined, games>>

StartBid(s, amount) ==
    /\ phase = "placing"
    /\ InGame(s)
    /\ Commit(handleStartBid(Room, playerIndex(Room, s), amount))
    /\ UNCHANGED <<joined, games>>

RaiseBid(s, amount) ==
    /\ phase = "bidding"
    /\ InGame(s)
    /\ Commit(handleRaiseBid(Room, playerIndex(Room, s), amount))
    /\ UNCHANGED <<joined, games>>

Pass(s) ==
    /\ phase = "bidding"
    /\ InGame(s)
    /\ Commit(handlePass(Room, playerIndex(Room, s)))
    /\ UNCHANGED <<joined, games>>

FlipCoaster(s, targetIdx) ==
    /\ phase = "flipping"
    /\ InGame(s)
    /\ Commit(handleFlip(Room, playerIndex(Room, s), targetIdx))
    /\ UNCHANGED <<joined, games>>

\* an index that is a number is in range when it passes the handler, so
\* doCardRemoval draws a random one only for an index that is no number
PenaltyDiscard(s, cardIndex) ==
    /\ phase = "penalty"
    /\ InGame(s)
    /\ \E rnd \in (IF IsNum(cardIndex) THEN {0}
                    ELSE {0} \cup (0 .. (Len(P(Room, playerIndex(Room, s)).cards) - 1))) :
          Commit(handlePenaltyDiscard(Room, playerIndex(Room, s), cardIndex, rnd))
    /\ UNCHANGED <<joined, games>>

PlayAgain(s) ==
    /\ Live /\ s \in joined
    /\ Commit(playAgain(Room, s))
    /\ UNCHANGED <<joined, games>>

Disconnect(s) ==
    /\ Live /\ s \in joined
    /\ Commit(disconnect(Room, s))
    /\ joined' = joined \ {s}
    /\ UNCHANGED games

\* the setTimeout wrapper of startTurnTimer (lines 95-99) and its callback
TurnTimerFires ==
    /\ Live
    /\ \E k \in 1 .. Len(timers) :
          /\ IsTurnTimer(timers[k]) /\ CanFire(timers, k)
          /\ LET r == [Room EXCEPT !.timers = RemoveAt(@, k)]
                 e == timers[k]
             IN  Commit(turnCallback(r, e))
    /\ UNCHANGED <<joined, games>>

ForcedBidFires ==
    /\ Live
    /\ \E k \in 1 .. Len(timers) :
          /\ timers[k].kind = "forcedBid" /\ CanFire(timers, k)
          /\ Commit(forcedBidCallback([Room EXCEPT !.timers = RemoveAt(@, k)],
                                      timers[k].a))
    /\ UNCHANGED <<joined, games>>

PenalizeFires ==
    /\ Live
    /\ \E k \in 1 .. Len(timers) :
          /\ timers[k].kind = "penalize" /\ CanFire(timers, k)
          /\ \E rnd \in 0 .. (Len(InitialCards) - 1) :
                /\ \/ rnd = 0
                   \/ /\ HasSeat(Room, timers[k].a)
                      /\ rnd < Len(P(Room, timers[k].a).cards)
                /\ Commit(penalize([Room EXCEPT !.timers = RemoveAt(@, k)],
                                   timers[k].a, timers[k].b, rnd))
    /\ UNCHANGED <<joined, games>>

ChallengeSuccessFires ==
    /\ Live
    /\ \E k \in 1 .. Len(timers) :
          /\ timers[k].kind = "challengeSuccess" /\ CanFire(timers, k)
          /\ Commit(challengeSuccess([Room EXCEPT !.timers = RemoveAt(@, k)],
                                     timers[k].a))
    /\ UNCHANGED <<joined, games>>

StartRoundFires ==
    /\ Live
    /\ \E k \in 1 .. Len(timers) :
          /\ timers[k].kind = "startRound" /\ CanFire(timers, k)
          /\ Commit(startRound([Room EXCEPT !.timers = RemoveAt(@, k)]))
    /\ UNCHANGED <<joined, games>>

(***************************************************************************)
(* Specifications.  Init is the room just after createRoom.                *)
(*   Spec         lobby, MaxGames games cut after MaxRounds rounds, and    *)
(*                play-again at any moment                                 *)
(*   SpecGame     one whole game at MaxSeats seats, no play-again          *)
(*   SpecLate     the end of a game at LateSeats seats, with up to MaxJunk *)
(*                non-tokens put on the table by place-card events without *)
(*                an index; SpecLateFair adds that timer callbacks run     *)
(*   SpecRace     a fifth game started while callbacks of four earlier     *)
(*                games are pending                                        *)
(*   SpecConn     lobby, one game and its reset, with connections that end *)
(*                and reconnect at any moment                              *)
(*   SpecOver     a game of three seats played to its end, then its reset, *)
(*                changes in the lobby and the start of the next game      *)
(***************************************************************************)
InitRoom ==
    /\ players = <<newPlayer(1, 1)>>
    /\ hostId = 1
    /\ started = FALSE
    /\ phase = "none"
    /\ currentPlayer = 0
    /\ currentBid = 0
    /\ highestBidder = -1
    /\ flipsRemaining = 0
    /\ totalCoastersOnTable = 0
    /\ roundNum = 0
    /\ firstPlacement = TRUE
    /\ nextRoundStarter = -1
    /\ penaltyPlayer = -1
    /\ revealedCards = <<>>
    /\ timers = <<>>
    /\ winnerIndex = -1
    /\ joined = {1}
    /\ games = 0
    /\ crashed = FALSE

Init == InitRoom /\ replay = ReplayEnd

\* the whole room: lobby, game and reset; a game is cut when round
\* MaxRounds + 1 starts
InBounds == roundNum <= MaxRounds

\* A place-card without a numeric index on an empty hand pushes undefined on
\* the stack, any number of times.  A behaviour is cut when it would put
\* more than `most` of them on the table.
JunkOnTable ==
    Cardinality({<<k, j>> \in (1 .. Len(players)) \X (1 .. (Len(InitialCards) + MaxJunk)) :
                    j <= Len(players[k].stack) /\ players[k].stack[j] = Undefined})
JunkCut(s, cardIndex, most) ==
    IF IsNum(cardIndex) \/ playerIndex(Room, s) = -1 THEN TRUE
    ELSE IF Len(P(Room, playerIndex(Room, s)).hand) > 0 THEN TRUE
    ELSE JunkOnTable < most

Next ==
    \/ InBounds /\ \E n \in Names : JoinRoom(FreshConn, n)
    \/ InBounds /\ \E s \in joined : games < MaxGames /\ StartGame(s)
    \/ InBounds /\ \E s \in joined : PlayAgain(s)
    \/ InBounds /\ \E s \in joined, c \in CardIndices(InitialCards) :
                      JunkCut(s, c, 0) /\ PlaceCard(s, c)
    \/ InBounds /\ \E s \in joined, a \in Amounts : StartBid(s, a)
    \/ InBounds /\ \E s \in joined, a \in Amounts : RaiseBid(s, a)
    \/ InBounds /\ \E s \in joined : Pass(s)
    \/ InBounds /\ \E s \in joined, t \in Targets : FlipCoaster(s, t)
    \/ InBounds /\ \E s \in joined, c \in CardIndices(InitialCards) : PenaltyDiscard(s, c)
    \/ InBounds /\ TurnTimerFires
    \/ InBounds /\ ForcedBidFires
    \/ InBounds /\ PenalizeFires
    \/ InBounds /\ ChallengeSuccessFires
    \/ InBounds /\ StartRoundFires

Spec == Init /\ [][Next]_vars

\* one whole game, from the lobby to game over
NextGame ==
    \/ \E n \in Names : JoinRoom(FreshConn, n)
    \/ \E s \in joined : games < 1 /\ StartGame(s)
    \/ \E s \in joined, c \in CardIndices(InitialCards) :
          JunkCut(s, c, 0) /\ PlaceCard(s, c)
    \/ \E s \in joined, a \in Amounts : StartBid(s, a)
    \/ \E s \in joined, a \in Amounts : RaiseBid(s, a)
    \/ \E s \in joined : Pass(s)
    \/ \E s \in joined, t \in Targets : FlipCoaster(s, t)
    \/ \E s \in joined, c \in CardIndices(InitialCards) : PenaltyDiscard(s, c)
    \/ TurnTimerFires
    \/ ForcedBidFires
    \/ PenalizeFires
    \/ ChallengeSuccessFires
    \/ StartRoundFires

SpecGame == Init /\ [][NextGame]_vars

\* The late game at three seats: a round has just been started by startRound
\* in a game whose earlier rounds left every seat one or two tokens and at
\* most one win.  Every round before it ended in a penalty or a won
\* challenge, so roundNum is one more than the tokens lost plus the rounds
\* won; a penalty for an opponent's skull removes a token at random, so any
\* tokens of the initial four can be the ones left, in their initial order.
\* The last seat is down to two tokens and the others to one.
\* The seat that starts the round is seat 0: the seats are alike, and the
\* tokens and wins range over the seats.
\* seats of the late game
LateSeats == 3
LateCards ==
    {cs \in [1 .. LateSeats -> {<<"rose">>, <<"skull">>, <<"rose", "skull">>}] :
        \A k \in 1 .. LateSeats : Len(cs[k]) = IF k < LateSeats THEN 1 ELSE 2}
\* no seat has won a round, or seat 0 only, or every seat but seat 0
LateWins ==
    {[k \in 1 .. LateSeats |-> 0],
     [k \in 1 .. LateSeats |-> IF k = 1 THEN 1 ELSE 0],
     [k \in 1 .. LateSeats |-> IF k = 1 THEN 0 ELSE 1]}

RECURSIVE SumCards(_, _)
SumCards(ps, k) == IF k = 0 THEN 0 ELSE Len(ps[k].cards) + SumCards(ps, k - 1)
RECURSIVE SumWins(_, _)
SumWins(ps, k) == IF k = 0 THEN 0 ELSE ps[k].wins + SumWins(ps, k - 1)

InitLate ==
    /\ \E cs \in LateCards, ws \in LateWins :
          players = [k \in 1 .. LateSeats |->
                       [newPlayer(k, k) EXCEPT !.cards = cs[k], !.hand = cs[k],
                                               !.wins = ws[k]]]
    /\ hostId = 1
    /\ started = TRUE
    /\ phase = "placing"
    /\ currentPlayer = 0
    /\ currentBid = 0
    /\ highestBidder = -1
    /\ flipsRemaining = 0
    /\ totalCoastersOnTable = 0
    /\ roundNum = 1 + (LateSeats * Len(InitialCards) - SumCards(players, LateSeats))
                    + SumWins(players, LateSeats)
    /\ firstPlacement = TRUE
    /\ nextRoundStarter = -1
    /\ penaltyPlayer = -1
    /\ revealedCards = <<>>
    /\ timers = <<[kind |-> "roundTurn", a |-> currentPlayer, b |-> -1]>>
    /\ winnerIndex = -1
    /\ joined = 1 .. LateSeats
    /\ games = 1
    /\ crashed = FALSE
    /\ replay = ReplayEnd

NextLate ==
    \/ \E s \in joined, c \in CardIndices(InitialCards) :
          JunkCut(s, c, MaxJunk) /\ PlaceCard(s, c)
    \/ \E s \in joined, a \in Amounts : StartBid(s, a)
    \/ \E s \in joined, a \in Amounts : RaiseBid(s, a)
    \/ \E s \in joined : Pass(s)
    \/ \E s \in joined, t \in Targets : FlipCoaster(s, t)
    \/ \E s \in joined, c \in CardIndices(InitialCards) : PenaltyDiscard(s, c)
    \/ TurnTimerFires
    \/ ForcedBidFires
    \/ PenalizeFires
    \/ ChallengeSuccessFires
    \/ StartRoundFires

SpecLate == InitLate /\ [][NextLate]_vars

\* The bidding deadline fires unless it is replaced: a raise is what
\* replaces it, and a raise changes the highest bidder, so the deadline
\* pending for one highest bidder fires if that bidder stays the highest.
BidDeadlineFires(b) == phase = "bidding" /\ highestBidder = b /\ TurnTimerFires

\* a setTimeout callback runs once its delay has passed
SpecLateFair ==
    /\ SpecLate
    /\ \A b \in 0 .. (LateSeats - 1) : WF_vars(BidDeadlineFires(b))
    /\ WF_vars(ForcedBidFires)
    /\ WF_vars(PenalizeFires)
    /\ WF_vars(ChallengeSuccessFires)
    /\ WF_vars(StartRoundFires)

\* The room after the replayed run: the events of Replay in their order, then
\* RaceSteps events of the fifth game, the callbacks of the earlier games
\* firing among them.  In so few events no hand empties and no penalty of
\* the fifth game comes due, so no forced bid and no penalty discard is among
\* them.
ReplayStep ==
    /\ replay < Len(Replay)
    /\ LET e == Replay[replay + 1]
       IN  CASE e.op = "joinRoom" ->
                  /\ Live /\ e.s = FreshConn
                  /\ Commit(joinRoom(Room, e.s, e.x))
                  /\ joined' = joined \cup {e.s}
                  /\ UNCHANGED games
             [] e.op = "startGame" -> StartGame(e.s)
             [] e.op = "placeCard" -> PlaceCard(e.s, e.x)
             [] e.op = "startBid" -> StartBid(e.s, e.x)
             [] e.op = "flipCoaster" -> FlipCoaster(e.s, e.x)
             [] OTHER -> PlayAgain(e.s)

Replayed == replay >= Len(Replay) /\ replay < ReplayEnd /\ InBounds

InitRace == InitRoom /\ replay = 0

NextRace ==
    \/ ReplayStep
    \/ Replayed /\ \E s \in joined, c \in CardIndices(InitialCards) :
                      JunkCut(s, c, 0) /\ PlaceCard(s, c)
    \/ Replayed /\ \E s \in joined, a \in Amounts : StartBid(s, a)
    \/ Replayed /\ \E s \in joined, a \in Amounts : RaiseBid(s, a)
    \/ Replayed /\ \E s \in joined : Pass(s)
    \/ Replayed /\ \E s \in joined, t \in Targets : FlipCoaster(s, t)
    \/ Replayed /\ TurnTimerFires
    \/ Replayed /\ PenalizeFires
    \/ Replayed /\ ChallengeSuccessFires
    \/ Replayed /\ StartRoundFires

SpecRace == InitRace /\ [][NextRace]_vars

\* The room with connections that end and come back: the lobby, one game cut
\* after MaxRounds rounds and its reset, with a disconnect of any socket at
\* any moment and join-room events of new connections under a name in use or
\* a new one.  A behaviour is cut when a new connection would be the
\* (MaxConns + 1)-th identity.
NextConn ==
    \/ InBounds /\ FreshConn <= MaxConns /\ \E n \in Names : JoinRoom(FreshConn, n)
    \/ InBounds /\ \E s \in joined : games < 1 /\ StartGame(s)
    \/ InBounds /\ \E s \in joined : Disconnect(s)
    \/ InBounds /\ \E s \in joined : PlayAgain(s)
    \/ InBounds /\ \E s \in joined, c \in CardIndices(InitialCards) :
                      JunkCut(s, c, 0) /\ PlaceCard(s, c)
    \/ InBounds /\ \E s \in joined, a \in Amounts : StartBid(s, a)
    \/ InBounds /\ \E s \in joined, a \in Amounts : RaiseBid(s, a)
    \/ InBounds /\ \E s \in joined : Pass(s)
    \/ InBounds /\ \E s \in joined, t \in Targets : FlipCoaster(s, t)
    \/ InBounds /\ \E s \in joined, c \in CardIndices(InitialCards) : PenaltyDiscard(s, c)
    \/ InBounds /\ TurnTimerFires
    \/ InBounds /\ ForcedBidFires
    \/ InBounds /\ PenalizeFires
    \/ InBounds /\ ChallengeSuccessFires
    \/ InBounds /\ StartRoundFires

SpecConn == Init /\ [][NextConn]_vars

\* A whole game replayed from the fresh room: two more players join, the host
\* starts the game, and seat 2 wins two rounds in a row.  In round 1 every
\* seat places a rose, seats 0 and 1 place a second one, seat 2 opens the
\* bidding at 1, the others pass and seat 2 flips its own rose; the pause
\* passes and round 2 starts with seat 2, where every seat places a rose and
\* seat 2 bids 1 and wins again: the game is over.  Every timer of the game
\* has run when it ends.
WonRound ==
    <<[op |-> "startBid", s |-> 3, x |-> 1],
      [op |-> "pass", s |-> 1, x |-> 0],
      [op |-> "pass", s |-> 2, x |-> 0],
      [op |-> "flipCoaster", s |-> 3, x |-> 2],
      [op |-> "challengeSuccess", s |-> 0, x |-> 0]>>

Finished ==
    <<[op |-> "joinRoom", s |-> 2, x |-> 2],
      [op |-> "joinRoom", s |-> 3, x |-> 3],
      [op |-> "startGame", s |-> 1, x |-> 0],
      [op |-> "placeCard", s |-> 1, x |-> 0],
      [op |-> "placeCard", s |-> 2, x |-> 0],
      [op |-> "placeCard", s |-> 3, x |-> 0],
      [op |-> "placeCard", s |-> 1, x |-> 0],
      [op |-> "placeCard", s |-> 2, x |-> 0]>>
    \o WonRound
    \o <<[op |-> "startRound", s |-> 0, x |-> 0],
         [op |-> "placeCard", s |-> 3, x |-> 0],
         [op |-> "placeCard", s |-> 1, x |-> 0],
         [op |-> "placeCard", s |-> 2, x |-> 0]>>
    \o WonRound

\* events explored after the finished game
OverSteps == 6
OverBase == ReplayEnd - Len(Finished) - OverSteps

FinishedStep ==
    /\ replay - OverBase < Len(Finished)
    /\ LET e == Finished[replay - OverBase + 1]
       IN  CASE e.op = "joinRoom" ->
                  /\ Live /\ e.s = FreshConn
                  /\ Commit(joinRoom(Room, e.s, e.x))
                  /\ joined' = joined \cup {e.s}
                  /\ UNCHANGED games
             [] e.op = "startGame" -> StartGame(e.s)
             [] e.op = "placeCard" -> PlaceCard(e.s, e.x)
             [] e.op = "startBid" -> StartBid(e.s, e.x)
             [] e.op = "pass" -> Pass(e.s)
             [] e.op = "flipCoaster" -> FlipCoaster(e.s, e.x)
             [] e.op = "challengeSuccess" -> ChallengeSuccessFires
             [] OTHER -> StartRoundFires

GameFinished == replay - OverBase >= Len(Finished) /\ replay < ReplayEnd

InitOver == InitRoom /\ replay = OverBase

\* The room after the finished game: the host resets it, players leave and
\* join in the lobby, and the host starts the next game, whose first turns
\* are played.
NextOver ==
    \/ FinishedStep
    \/ GameFinished /\ \E s \in joined : PlayAgain(s)
    \/ GameFinished /\ \E s \in joined : Disconnect(s)
    \/ GameFinished /\ \E n \in Names : JoinRoom(FreshConn, n)
    \/ GameFinished /\ \E s \in joined : StartGame(s)
    \/ GameFinished /\ \E s \in joined, c \in CardIndices(InitialCards) :
                          JunkCut(s, c, 0) /\ PlaceCard(s, c)
    \/ GameFinished /\ \E s \in joined, a \in Amounts : StartBid(s, a)
    \/ GameFinished /\ TurnTimerFires

SpecOver == InitOver /\ [][NextOver]_vars

(***************************************************************************)
(* Properties.                                                             *)
(***************************************************************************)
SeatSet == 0 .. (Len(players) - 1)
Seat(i) == players[i + 1]
\* the tokens among the entries of a stack: a place-card without an index on
\* an empty hand pushes an entry that is no token
Tokens(st) == Cardinality({k \in 1 .. Len(st) : st[k] # Undefined})
OnTable(i) == Len(Seat(i).hand) + Tokens(Seat(i).stack)
\* tokens of seat i in the reveal list of the current flip sequence
RevealedOf(i) ==
    Cardinality({k \in 1 .. Len(revealedCards) :
                    /\ revealedCards[k].playerIndex = i
                    /\ revealedCards[k].card # Undefined})
Alive == {i \in SeatSet : ~Seat(i).eliminated}

NumTimers(q, kind) == Cardinality({k \in 1 .. Len(q) : q[k].kind = kind})

\* a step in which a penalty takes its token: penalize without a choice, or
\* the penalty player's discard
RemovalStep ==
    /\ started /\ started'
    /\ NumTimers(timers', "penalize") < NumTimers(timers, "penalize")
          \/ (phase = "penalty" /\ penaltyPlayer >= 0)
    /\ penaltyPlayer' = -1

\* C3: between a start-game and the next play-again reset, |cards| never
\* increases from one state to the next, each penalty removes exactly one
\* token from exactly one seat, and an eliminated seat stays eliminated: it
\* is never dealt a hand and never becomes turn owner, highest bidder or
\* penalty player.
C3_CardsOnlyShrink ==
    [][(started /\ started' /\ Len(players') = Len(players)) =>
         /\ \A i \in SeatSet :
               /\ Len(Seat(i).cards') <= Len(Seat(i).cards)
               /\ Seat(i).eliminated =>
                     /\ Seat(i).eliminated'
                     /\ Seat(i).hand' = <<>>
                     /\ currentPlayer' = i => currentPlayer = i
                     /\ highestBidder' = i => highestBidder = i
                     /\ penaltyPlayer' = i => penaltyPlayer = i
         /\ (RemovalStep \/ \E i \in SeatSet : Seat(i).cards' # Seat(i).cards) =>
               \E i \in SeatSet :
                   /\ Len(Seat(i).cards') = Len(Seat(i).cards) - 1
                   /\ \A j \in SeatSet \ {i} : Seat(j).cards' = Seat(j).cards
       ]_vars

\* C4: in every reachable state with phase = bidding, 1 <= currentBid <= the
\* sum of all stack sizes, whatever amount was supplied to start-bid or
\* raise-bid.
C4_BidWithinTable ==
    phase = "bidding" => 1 <= currentBid /\ currentBid <= countOnTable(Room)

FlipStep ==
    /\ phase = "flipping"
    /\ Len(revealedCards') = Len(revealedCards) + 1

C6_OwnStackFirst ==
    /\ [](phase = "flipping" =>
            \A k \in 1 .. Len(revealedCards) :
                revealedCards[k].playerIndex # highestBidder =>
                    /\ Len(Seat(highestBidder).stack) = 0
                    /\ \A j \in k .. Len(revealedCards) :
                          revealedCards[j].playerIndex # highestBidder)
    /\ [][FlipStep =>
            (revealedCards'[Len(revealedCards')].playerIndex # highestBidder
                => Len(Seat(highestBidder).stack) = 0)]_vars

\* C6 witness: the bidder has flipped its own stack and then another seat's
C6_Witness ==
    /\ phase = "flipping" /\ Len(revealedCards) >= 2
    /\ revealedCards[1].playerIndex = highestBidder
    /\ revealedCards[Len(revealedCards)].playerIndex # highestBidder

\* an accepted raise: the phase is bidding and the highest bidder changes
RaiseStep ==
    /\ phase = "bidding" /\ phase' \in {"bidding", "flipping"}
    /\ highestBidder' # highestBidder

\* C7: bidding always terminates.  Every accepted raise strictly increases
\* currentBid, which stays within the tokens on the table; when the bidding
\* deadline fires the phase becomes flipping in the same step; and, the
\* pending deadline firing unless it is replaced, a room in bidding
\* eventually leaves bidding.
C7_BiddingTerminates ==
    /\ [][RaiseStep =>
            /\ IsNum(currentBid) /\ IsNum(currentBid')
            /\ currentBid' > currentBid
            /\ currentBid' <= countOnTable(Room)]_vars
    /\ [][(phase = "bidding" /\ started'
           /\ NumTimers(timers', "bidTurn") < NumTimers(timers, "bidTurn")
           /\ highestBidder' = highestBidder /\ currentBid' = currentBid
           /\ \E i \in SeatSet : Seat(i).passed' # Seat(i).passed)
          => phase' = "flipping"]_vars
    /\ [](phase = "bidding" => <>(phase # "bidding"))

\* C8: the room enters gameover only in a step in which a player's wins reach
\* the target or at most one seat stays non-eliminated, the winner being that
\* player or the survivor; and in a started game no state has a player at the
\* target, or at most one non-eliminated seat, while the phase is not gameover.
C8_GameOverIff ==
    /\ []((started /\ ((\E i \in SeatSet : Seat(i).wins >= WinTarget)
                         \/ Cardinality(Alive) <= 1))
             => phase = "gameover")
    /\ [][(phase # "gameover" /\ phase' = "gameover") =>
            \/ \E i \in SeatSet :
                  /\ Seat(i).wins < WinTarget /\ Seat(i).wins' >= WinTarget
                  /\ winnerIndex' = i
            \/ /\ Cardinality(Alive) > 1
               /\ {i \in SeatSet : ~Seat(i).eliminated'} = {winnerIndex'}]_vars

\* the hand, stack and cards of every seat but the viewer's own replaced by
\* as many tokens of one kind
Scrub(r, socketId, kind) ==
    [r EXCEPT !.players = [k \in 1 .. Len(r.players) |->
        IF k - 1 = playerIndex(r, socketId) THEN r.players[k]
        ELSE [r.players[k] EXCEPT
                !.hand = [j \in 1 .. Len(r.players[k].hand) |-> kind],
                !.stack = [j \in 1 .. Len(r.players[k].stack) |-> kind],
                !.cards = [j \in 1 .. Len(r.players[k].cards) |-> kind]]]]

\* C9: the view for a viewer does not depend on the token kinds in the hand,
\* stack or cards of the other seats; its hand field is non-null only for
\* the viewer's own seat, and penaltyCards is non-null only when the phase is
\* penalty and the viewer is the penalty player.
C9_ViewHidesTokens ==
    \A n \in 1 .. Len(players) :
        LET v == players[n].id
            view == stateForPlayer(Room, v)
        IN  /\ \A kind \in {"rose", "skull"} :
                  stateForPlayer(Scrub(Room, v, kind), v) = view
            /\ \A k \in 1 .. Len(players) :
                  view.players[k].hand # Null => k - 1 = view.myIndex
            /\ view.penaltyCards # Null =>
                  phase = "penalty" /\ penaltyPlayer = view.myIndex

\* C9 witness: the penalty player is choosing while another seat holds
\* tokens in hand and on its stack
C9_Witness ==
    /\ started /\ phase = "penalty" /\ penaltyPlayer \in SeatSet
    /\ \E i \in SeatSet \ {penaltyPlayer} :
          Len(Seat(i).hand) > 0 /\ Len(Seat(i).stack) > 0

\* a step in which a deferred callback runs
DeferredStep ==
    \E kind \in {"penalize", "challengeSuccess", "startRound", "forcedBid"} :
        /\ NumTimers(timers', kind) < NumTimers(timers, kind)
        /\ \A other \in {"penalize", "challengeSuccess", "startRound",
                         "forcedBid"} \ {kind} :
              NumTimers(timers', other) >= NumTimers(timers, other)

\* C10: every deferred callback re-validates the room when it runs, and is a
\* no-op if the room has moved on during the delay: after the host's
\* play-again (started = false) it changes nothing of the room.
C10_DeferredRevalidates ==
    [][(DeferredStep /\ ~started) =>
          UNCHANGED <<players, hostId, started, phase, currentPlayer,
                      currentBid, highestBidder, flipsRemaining,
                      totalCoastersOnTable, roundNum, firstPlacement,
                      nextRoundStarter, penaltyPlayer, revealedCards>>]_vars

\* the room is in the state for which the turn deadline e was set: placing
\* with e's seat as turn owner for a placing deadline, bidding for a bidding
\* deadline
Justified(r, e) ==
    IF e.kind = "bidTurn" THEN r.phase = "bidding"
    ELSE r.phase = "placing" /\ r.currentPlayer = e.a

\* a step in which the turn owner's placing turn is played, by the player or
\* by the deadline: the owner's stack grows or the bidding opens
TurnPlayed ==
    /\ phase = "placing" /\ currentPlayer \in SeatSet
    /\ Len(players') = Len(players)
    /\ \/ Len(players'[currentPlayer + 1].stack) = Len(Seat(currentPlayer).stack) + 1
       \/ phase' \in {"bidding", "flipping"}

\* C11: a turn deadline that fires when the room is no longer in the state
\* it was set for changes nothing of the room and schedules nothing (the
\* room after it is the room before it less the fired deadline); at most one
\* deadline is pending; and once a placing turn is played, by the player or
\* by the deadline, no deadline of that turn is left pending, so the player's
\* action and the auto-action of one turn are never both applied.
C11_StaleDeadlineNoOp ==
    /\ [](\A k \in 1 .. Len(timers) :
            (IsTurnTimer(timers[k]) /\ ~Justified(Room, timers[k])) =>
                LET r == [Room EXCEPT !.timers = RemoveAt(@, k)]
                IN  turnCallback(r, timers[k]) = r)
    /\ [](Cardinality({k \in 1 .. Len(timers) : IsTurnTimer(timers[k])}) <= 1)
    /\ [][TurnPlayed =>
            ~(/\ phase' = "placing"
              /\ TurnTimerOf(timers').kind \in {"roundTurn", "placeTurn"}
              /\ TurnTimerOf(timers').a = currentPlayer)]_vars

\* C11 witness: the host has reset the room while a bidding deadline was
\* pending, and that deadline is now due
C11_Witness ==
    /\ phase = "none" /\ games > 0
    /\ \E k \in 1 .. Len(timers) : timers[k].kind = "bidTurn" /\ CanFire(timers, k)

\* c is an index of the sequence s
InRange(c, s) == IsNum(c) /\ 0 <= c /\ c < Len(s)

\* C12: in a started game every illegal or out-of-turn action leaves the room
\* as it was, every field of the room and of the players and the pending
\* deadline: a place-card outside placing, by a seat that is not the turn
\* owner or with an index that is no index of the hand; a start-bid outside
\* placing, by a non-turn-owner or while firstPlacement holds; a raise-bid or
\* pass outside bidding or by a passed, eliminated or highest-bidder seat, or
\* a raise whose amount is no number above currentBid and within the tokens
\* on the table; a flip-coaster outside flipping, by anyone but the highest
\* bidder or on an eliminated, empty or nonexistent target; a penalty-discard
\* outside penalty, by a seat other than penaltyPlayer or with an index that
\* is no index of its cards.
C12_IllegalRejected ==
    (started /\ ~crashed) =>
      \A p \in SeatSet :
        /\ \A c \in CardIndices(InitialCards) :
              (phase # "placing" \/ currentPlayer # p \/ ~InRange(c, Seat(p).hand))
                  => handlePlace(Room, p, c) = Room
        /\ \A a \in Amounts :
              (phase # "placing" \/ currentPlayer # p \/ firstPlacement)
                  => handleStartBid(Room, p, a) = Room
        /\ \A a \in Amounts :
              (\/ phase # "bidding"
               \/ Seat(p).passed \/ Seat(p).eliminated \/ p = highestBidder
               \/ ~(JsGt(a, currentBid) /\ JsLe(a, countOnTable(Room))))
                  => handleRaiseBid(Room, p, a) = Room
        /\ (\/ phase # "bidding"
            \/ Seat(p).passed \/ Seat(p).eliminated \/ p = highestBidder)
                  => handlePass(Room, p) = Room
        /\ \A t \in Targets :
              (\/ phase # "flipping" \/ p # highestBidder
               \/ t \notin SeatSet
               \/ t \in SeatSet /\ (Seat(t).eliminated \/ Seat(t).stack = <<>>))
                  => handleFlip(Room, p, t) = Room
        /\ \A c \in CardIndices(InitialCards), rnd \in 0 .. (Len(InitialCards) - 1) :
              (phase # "penalty" \/ penaltyPlayer # p \/ ~InRange(c, Seat(p).cards))
                  => handlePenaltyDiscard(Room, p, c, rnd) = Room


\* the raise of amount a by seat p is accepted: the bid or its holder changes
RaiseAccepted(p, a) ==
    LET r == handleRaiseBid(Room, p, a)
    IN  r.currentBid # currentBid \/ r.highestBidder # highestBidder

\* C13: a raise-bid is accepted exactly when the phase is bidding, the seat is
\* non-passed, non-eliminated and not the highest bidder, and currentBid <
\* amount <= the tokens on the table.  An accepted raise sets currentBid to
\* the amount and highestBidder to the raising seat and leaves every passed
\* flag as it was; the deadline pending before it is cancelled, and the one
\* pending after it is a fresh bidding deadline, the timer set last (none is
\* pending when the raise reaches the tokens on the table and ends the
\* bidding).
C13_RaiseAccepted ==
    (started /\ ~crashed) =>
      \A p \in SeatSet, a \in Amounts :
        LET r == handleRaiseBid(Room, p, a)
        IN  /\ RaiseAccepted(p, a) <=>
                 /\ phase = "bidding"
                 /\ ~Seat(p).passed /\ ~Seat(p).eliminated /\ p # highestBidder
                 /\ IsNum(a) /\ IsNum(currentBid)
                 /\ currentBid < a /\ a <= countOnTable(Room)
            /\ RaiseAccepted(p, a) =>
                 /\ r.currentBid = a /\ r.highestBidder = p
                 /\ \A k \in 1 .. Len(players) :
                       r.players[k].passed = players[k].passed
                 /\ r.phase \in {"bidding", "flipping"}
                 /\ r.phase = "bidding" =>
                       /\ Len(r.timers) > 0
                       /\ r.timers[Len(r.timers)].kind = "bidTurn"
                       /\ NumTimers(r.timers, "bidTurn") = 1
                 /\ r.phase = "flipping" =>
                       /\ a = countOnTable(Room)
                       /\ TurnTimerOf(r.timers) = NoTimer

\* the penalize callback that runs first
DuePenalize ==
    timers[Min({k \in 1 .. Len(timers) : timers[k].kind = "penalize"})]

\* a step in which a penalize callback runs
PenalizeStep ==
    /\ started /\ started'
    /\ NumTimers(timers', "penalize") < NumTimers(timers, "penalize")

\* a step in which a round starts
RoundStartStep == started /\ started' /\ roundNum' = roundNum + 1

\* C14: self-skull penalty.  When the penalty for the bidder's own skull comes
\* due and the bidder holds more than one token, the phase becomes penalty
\* with that bidder as penaltyPlayer and no token is taken yet.  In phase
\* penalty a penalty-discard is accepted only from penaltyPlayer and only with
\* an index of its cards; it removes exactly the token at that index and
\* changes no other seat's cards; and the round that starts after it has that
\* seat as turn owner.
C14_SelfSkullPenalty ==
    /\ [][(PenalizeStep /\ DuePenalize.a = DuePenalize.b
           /\ Len(Seat(DuePenalize.a).cards) > 1) =>
            /\ phase' = "penalty"
            /\ penaltyPlayer' = DuePenalize.a
            /\ nextRoundStarter' = DuePenalize.a
            /\ players' = players]_vars
    /\ []((started /\ ~crashed /\ phase = "penalty") =>
            \A p \in SeatSet, c \in CardIndices(InitialCards),
               rnd \in 0 .. (Len(InitialCards) - 1) :
              LET r == handlePenaltyDiscard(Room, p, c, rnd)
              IN  r # Room =>
                    /\ p = penaltyPlayer /\ InRange(c, Seat(p).cards)
                    /\ r.players[p + 1].cards = RemoveAt(Seat(p).cards, c + 1)
                    /\ \A j \in SeatSet \ {p} : r.players[j + 1].cards = Seat(j).cards
                    /\ r.nextRoundStarter = p /\ ~r.players[p + 1].eliminated
                    /\ NumTimers(r.timers, "startRound") = 1)
    /\ [][(RoundStartStep /\ phase = "penalty") =>
            nextRoundStarter \in SeatSet /\ currentPlayer' = nextRoundStarter]_vars

\* the flip sequence has ended on a skull of a seat other than the bidder
OpponentSkull ==
    /\ phase = "flip_result" /\ Len(revealedCards) > 0
    /\ revealedCards[Len(revealedCards)].card = "skull"
    /\ revealedCards[Len(revealedCards)].playerIndex # highestBidder

\* C15: opponent-skull penalty.  When the penalty for another seat's skull
\* comes due, the phase does not become penalty and no seat becomes
\* penaltyPlayer (no penalty-discard is accepted); the bidder loses exactly
\* one token and no other seat loses any; each of the bidder's tokens is a
\* possible outcome of the draw; and unless the game ends the round that
\* starts next has the seat whose skull was revealed as turn owner.
C15_OpponentSkullPenalty ==
    /\ [][(PenalizeStep /\ DuePenalize.a # DuePenalize.b) =>
            /\ phase' # "penalty" /\ penaltyPlayer' = -1
            /\ \E i \in 1 .. Len(Seat(DuePenalize.a).cards) :
                  players'[DuePenalize.a + 1].cards =
                      RemoveAt(Seat(DuePenalize.a).cards, i)
            /\ \A j \in SeatSet \ {DuePenalize.a} :
                  players'[j + 1].cards = Seat(j).cards
            /\ phase' # "gameover" =>
                  /\ nextRoundStarter' = DuePenalize.b
                  /\ NumTimers(timers', "startRound") = 1]_vars
    /\ [][(OpponentSkull /\ started') => phase' # "penalty" /\ penaltyPlayer' = -1]_vars
    /\ []((started /\ ~crashed /\ OpponentSkull /\ NumTimers(timers, "penalize") > 0) =>
            \A rnd \in 0 .. (Len(Seat(highestBidder).cards) - 1) :
                penalize(Room, highestBidder,
                         revealedCards[Len(revealedCards)].playerIndex,
                         rnd).players[highestBidder + 1].cards
                    = RemoveAt(Seat(highestBidder).cards, rnd + 1))
    /\ []((started /\ ~crashed /\ OpponentSkull) =>
            \A p \in SeatSet, c \in CardIndices(InitialCards),
               rnd \in 0 .. (Len(InitialCards) - 1) :
                handlePenaltyDiscard(Room, p, c, rnd) = Room)
    /\ [][(RoundStartStep /\ OpponentSkull) =>
            currentPlayer' = revealedCards[Len(revealedCards)].playerIndex]_vars

\* the challengeSuccess callback that runs first
DueSuccess ==
    timers[Min({k \in 1 .. Len(timers) : timers[k].kind = "challengeSuccess"})]

\* a step in which a challengeSuccess callback runs
SuccessStep ==
    /\ started /\ started'
    /\ NumTimers(timers', "challengeSuccess") < NumTimers(timers, "challengeSuccess")

\* the flip sequence has ended with every owed flip made and no skull
ChallengeWon ==
    /\ phase = "flip_result" /\ Len(revealedCards) > 0
    /\ revealedCards[Len(revealedCards)].card # "skull"

\* C16: challenge success.  The flip that completes the owed flips without a
\* skull sets one challengeSuccess for the bidder; when it runs, that bidder's
\* wins grow by exactly one, no other wins change, and the bidder becomes
\* nextRoundStarter; wins change in no other step of a game.  If the wins
\* reach the target the phase is gameover in the same step with that bidder
\* as winner and no round is set to start, and no round starts while the
\* phase is gameover; otherwise one round start is set, and the round that
\* starts has that bidder as turn owner.  No player's wins exceed the target.
C16_ChallengeSuccess ==
    /\ [][(FlipStep /\ phase' = "flip_result"
           /\ revealedCards'[Len(revealedCards')].card # "skull") =>
            /\ NumTimers(timers', "challengeSuccess") =
                   NumTimers(timers, "challengeSuccess") + 1
            /\ timers'[Len(timers')] =
                   [kind |-> "challengeSuccess", a |-> highestBidder, b |-> -1]]_vars
    /\ [][SuccessStep =>
            /\ players'[DueSuccess.a + 1].wins = Seat(DueSuccess.a).wins + 1
            /\ \A j \in SeatSet \ {DueSuccess.a} : players'[j + 1].wins = Seat(j).wins
            /\ nextRoundStarter' = DueSuccess.a
            /\ IF players'[DueSuccess.a + 1].wins >= WinTarget
               THEN /\ phase' = "gameover" /\ winnerIndex' = DueSuccess.a
                    /\ NumTimers(timers', "startRound") = NumTimers(timers, "startRound")
               ELSE /\ phase' = phase
                    /\ NumTimers(timers', "startRound") =
                           NumTimers(timers, "startRound") + 1]_vars
    /\ [][(started /\ started' /\ Len(players') = Len(players)
           /\ \E j \in SeatSet : players'[j + 1].wins # Seat(j).wins) => SuccessStep]_vars
    /\ [][(started /\ started' /\ phase = "gameover") =>
            phase' = "gameover" /\ roundNum' = roundNum]_vars
    /\ [][(RoundStartStep /\ ChallengeWon) => currentPlayer' = highestBidder]_vars
    /\ [](\A j \in SeatSet : Seat(j).wins <= WinTarget)

\* the room after the pending turn deadline has fired
AfterDeadline ==
    LET k == CHOOSE k \in 1 .. Len(timers) : IsTurnTimer(timers[k])
    IN  turnCallback([Room EXCEPT !.timers = RemoveAt(@, k)], timers[k])

\* a placing-turn deadline is pending for the turn owner in placing
PlacingDeadlineDue ==
    /\ started /\ ~crashed /\ phase = "placing"
    /\ TurnTimerOf(timers).kind \in {"roundTurn", "placeTurn"}
    /\ TurnTimerOf(timers).a = currentPlayer
    /\ currentPlayer \in SeatSet

SeatsOf(r) ==
    [k \in 1 .. Len(r.players) |->
        [name |-> r.players[k].name, cards |-> r.players[k].cards,
         hand |-> r.players[k].hand, stack |-> r.players[k].stack,
         wins |-> r.players[k].wins, eliminated |-> r.players[k].eliminated,
         passed |-> r.players[k].passed]]

\* the seats a join-room under name n would be rebound to
Gone(n) == {i \in SeatSet : Seat(i).name = n /\ ~Seat(i).connected}

\* a step that gives some seat another connection identity
RebindStep == \E k \in 1 .. Len(players) : players'[k].id # players[k].id

\* C18: in a started room a join-room from any connection under the name
\* of a disconnected seat gives that seat, and no other, the new identity and
\* connected = TRUE, and leaves the number and order of the seats and every
\* seat's cards, hand, stack, wins, eliminated and passed as they were; under
\* any other name it changes nothing.  While the room is started no step
\* changes the number of seats or their names, and an identity changes only
\* at a disconnected seat, which becomes connected.
C18_Reconnect ==
    /\ [](\A i, j \in SeatSet : Seat(i).name = Seat(j).name => i = j)
    /\ []((started /\ ~crashed) =>
            \A n \in Names, s \in joined \cup {FreshConn} :
                LET r == joinRoom(Room, s, n)
                IN  /\ SeatsOf(r) = SeatsOf(Room)
                    /\ [r EXCEPT !.players = players] = Room
                    /\ \A i \in SeatSet :
                          IF i \in Gone(n)
                          THEN /\ r.players[i + 1].id = s
                               /\ r.players[i + 1].connected
                          ELSE /\ r.players[i + 1].id = Seat(i).id
                               /\ r.players[i + 1].connected = Seat(i).connected)
    /\ [][started =>
            /\ Len(players') = Len(players)
            /\ \A k \in 1 .. Len(players) : players'[k].name = players[k].name]_vars
    /\ [][(started /\ RebindStep) =>
            /\ SeatsOf(Room') = SeatsOf(Room)
            /\ \A k \in 1 .. Len(players) :
                  players'[k].id # players[k].id =>
                      /\ ~players[k].connected /\ players'[k].connected
                      /\ players'[k].id \notin joined
                      /\ players'[k].id \in joined']_vars

\* C18 witness: in a started game a seat with tokens in hand and on its
\* stack is held by a connection that joined after the start, and another
\* seat is disconnected
C18_Witness ==
    /\ started /\ phase = "bidding"
    /\ \E i, j \in SeatSet :
          /\ Seat(i).connected /\ Seat(i).id > MaxSeats
          /\ Len(Seat(i).hand) > 0 /\ Len(Seat(i).stack) > 0
          /\ ~Seat(j).connected

\* C19: play-again from an identity that is not the host leaves the room
\* unchanged; from the host it leaves started = FALSE, phase = none, every
\* seat with empty cards, hand and stack, wins = 0, eliminated = FALSE,
\* passed = FALSE, and currentBid, highestBidder, nextRoundStarter,
\* penaltyPlayer and the pending deadline as in a freshly created room
\* (0, -1, -1, -1, none).
C19_PlayAgainResets ==
    (Len(players) > 0 /\ ~crashed) =>
      \A s \in UsedIds \cup {FreshConn} :
        LET r == playAgain(Room, s)
        IN  IF s # hostId THEN r = Room
            ELSE /\ ~r.started /\ r.phase = "none"
                 /\ \A k \in 1 .. Len(r.players) :
                       /\ r.players[k].cards = <<>>
                       /\ r.players[k].hand = <<>>
                       /\ r.players[k].stack = <<>>
                       /\ r.players[k].wins = 0
                       /\ ~r.players[k].eliminated
                       /\ ~r.players[k].passed
                 /\ r.currentBid = 0
                 /\ r.highestBidder = -1
                 /\ r.nextRoundStarter = -1
                 /\ r.penaltyPlayer = -1
                 /\ \A k \in 1 .. Len(r.timers) : ~IsTurnTimer(r.timers[k])

\* two seats, each with exactly one token on its stack, and the turn is with
\* a seat whose hand is empty
TwoSeatsOneEach ==
    /\ started /\ ~crashed /\ phase = "placing" /\ ~firstPlacement
    /\ Len(players) = 2
    /\ \A i \in SeatSet : ~Seat(i).eliminated /\ Len(Seat(i).stack) = 1
    /\ currentPlayer \in SeatSet
    /\ Seat(currentPlayer).hand = <<>>

\* the forced bid set for the turn owner is pending
ForcedBidDue ==
    \E k \in 1 .. Len(timers) :
        /\ timers[k].kind = "forcedBid" /\ timers[k].a = currentPlayer
        /\ CanFire(timers, k)

\* the forced bids pending in timer queue q
ForcedBids(q) == Cardinality({k \in 1 .. Len(q) : q[k].kind = "forcedBid"})

\* the step in which the forced bid of the turn owner opens the bidding
ForcedOpen ==
    /\ TwoSeatsOneEach /\ ForcedBidDue
    /\ ForcedBids(timers') < ForcedBids(timers)
    /\ phase' # "placing"
    /\ highestBidder' = currentPlayer

\* C20 as stated: the forced opening moves the room to flipping in the same
\* step, with the forced bidder as the flipper
C20_ForcedBidFlips_AsStated ==
    [][ForcedOpen => (phase' = "flipping" /\ currentPlayer' = currentPlayer)]_vars

\* C20 (amended): with two seats that have each placed exactly one token and
\* the turn with a seat whose hand is empty, the forced opening (800 ms after
\* the turn passed) opens a bid of 1 for that seat and moves the room to
\* bidding, not to flipping: 1 is below the 2 tokens on the table and the
\* other seat has not passed.  No stack changes, no flip is owed yet and the
\* bidding deadline is set.  From bidding between two seats the room moves to
\* flipping only in a step that raises the bid or passes the other seat (its
\* pass or the expiry of the bidding deadline), and the flipper is then the
\* highest bidder.
C20_ForcedBidOpens ==
    /\ [](TwoSeatsOneEach =>
            LET r == forcedBidCallback(Room, currentPlayer)
            IN  /\ r.phase = "bidding"
                /\ r.currentBid = 1 /\ r.highestBidder = currentPlayer
                /\ r.totalCoastersOnTable = 2)
    /\ [][ForcedOpen =>
            /\ phase' = "bidding"
            /\ currentBid' = 1
            /\ currentPlayer' = -1
            /\ flipsRemaining' = flipsRemaining
            /\ \A k \in 1 .. Len(players) :
                  /\ players'[k].stack = players[k].stack
                  /\ players'[k].hand = players[k].hand
                  /\ ~players'[k].passed
            /\ TurnTimerOf(timers').kind = "bidTurn"]_vars
    /\ [][(/\ phase = "bidding" /\ phase' = "flipping"
           /\ Len(players) = 2
           /\ \A k \in 1 .. Len(players) : ~players[k].eliminated) =>
            /\ \/ currentBid' # currentBid
               \/ \E k \in 1 .. Len(players) : players'[k].passed /\ ~players[k].passed
            /\ currentPlayer' = highestBidder'
            /\ flipsRemaining' = currentBid']_vars

\* C20 witness: the forced bid of a seat with an empty hand is due with one
\* token on each of the two stacks
C20_Witness == TwoSeatsOneEach /\ ForcedBidDue

\* the rooms that a round start can make of this room: start-game by the host
\* of a lobby of two or more, and each round start that is pending
RoundStarts ==
    (IF ~started /\ Len(players) >= 2 /\ hostId \in joined
     THEN {startGame(Room)} ELSE {})
    \cup {startRound([Room EXCEPT !.timers = RemoveAt(@, k)]) :
            k \in {j \in 1 .. Len(timers) : started /\ timers[j].kind = "startRound"}}

\* seat c is the first non-eliminated seat of r scanning cyclically from base
FirstFrom(r, base, c) ==
    /\ c \in Seats(r) /\ ~P(r, c).eliminated
    /\ \A i \in Seats(r) :
          ((i - base) % NumSeats(r) < (c - base) % NumSeats(r)) => P(r, i).eliminated

\* C21: every round start completes and makes an existing, non-eliminated
\* seat the turn owner: nextRoundStarter if it is set and that seat is not
\* eliminated, otherwise the first non-eliminated seat scanning cyclically
\* from (roundNum - 1) mod seatCount; and it clears nextRoundStarter.
C21_FirstTurnOwner ==
    (Len(players) > 0 /\ ~crashed) =>
      \A r \in RoundStarts :
          /\ ~r.crashed
          /\ r.currentPlayer \in Seats(r)
          /\ ~P(r, r.currentPlayer).eliminated
          /\ r.nextRoundStarter = -1
          /\ IF /\ nextRoundStarter \in Seats(r)
                /\ ~P(r, nextRoundStarter).eliminated
             THEN r.currentPlayer = nextRoundStarter
             ELSE FirstFrom(r, (r.roundNum - 1) % NumSeats(r), r.currentPlayer)

\* a step in which the turn owner places a token and the turn goes to a seat
\* with an empty hand after the first placements are over
HandsTurnToEmptyHand ==
    /\ started /\ started' /\ ~crashed' /\ roundNum' = roundNum
    /\ phase = "placing" /\ phase' = "placing"
    /\ currentPlayer \in SeatSet
    /\ Len(players') = Len(players)
    /\ Len(players'[currentPlayer + 1].stack) = Len(Seat(currentPlayer).stack) + 1
    /\ currentPlayer' \in SeatSet
    /\ players'[currentPlayer' + 1].hand = <<>>
    /\ ~firstPlacement'

\* every placing phase ends
PlacingEnds == (started /\ phase = "placing") ~> (phase # "placing" \/ ~started)

\* C22: in a started game in placing the turn owner is a seat that can move:
\* it has a token in hand, or firstPlacement is false and it may open the
\* bidding.  A placement that hands the turn to a seat with an empty hand
\* while firstPlacement is false sets no placing deadline and sets the forced
\* bid for that seat, which opens a bid of 1 for it when it runs with the
\* turn still there.  Every placing phase ends.
C22_PlacingHasMove ==
    /\ []((started /\ ~crashed /\ phase = "placing") =>
            /\ currentPlayer \in SeatSet
            /\ Len(Seat(currentPlayer).hand) > 0 \/ ~firstPlacement)
    /\ [][HandsTurnToEmptyHand =>
            /\ TurnTimerOf(timers') = NoTimer
            /\ timers'[Len(timers')] =
                  [kind |-> "forcedBid", a |-> currentPlayer', b |-> -1]]_vars
    /\ []((/\ started /\ ~crashed /\ phase = "placing" /\ ~firstPlacement
           /\ currentPlayer \in SeatSet
           /\ Seat(currentPlayer).hand = <<>>) =>
            LET r == forcedBidCallback(Room, currentPlayer)
            IN  /\ r.phase \in {"bidding", "flipping"}
                /\ r.highestBidder = currentPlayer
                /\ r.currentBid = 1)
    /\ PlacingEnds

\* C23: in every state with phase = bidding, currentPlayer is the sentinel
\* -1, highestBidder is a non-eliminated seat that has not passed, currentBid
\* is a number strictly below the tokens on the table, and some other
\* non-eliminated seat has not passed.  A passed flag that is set is cleared
\* only by a round start (or the reset of the room).
C23_BiddingOpen ==
    /\ []((started /\ ~crashed /\ phase = "bidding") =>
            /\ currentPlayer = -1
            /\ highestBidder \in SeatSet
            /\ ~Seat(highestBidder).eliminated
            /\ ~Seat(highestBidder).passed
            /\ JsLt(currentBid, countOnTable(Room))
            /\ \E i \in SeatSet \ {highestBidder} :
                  ~Seat(i).eliminated /\ ~Seat(i).passed)
    /\ [][(/\ started /\ started' /\ phase \in {"bidding", "flipping", "flip_result", "penalty"}
           /\ Len(players') = Len(players)
           /\ \E k \in 1 .. Len(players) : players[k].passed /\ ~players'[k].passed) =>
            roundNum' = roundNum + 1]_vars

\* the resolutions (penalty or challenge success) that are pending
Resolutions(q) == NumTimers(q, "penalize") + NumTimers(q, "challengeSuccess")

\* C24: an accepted flip pops exactly one token, the top of one seat's stack,
\* and adds exactly one reveal record for it.  If the token is the skull, or
\* the rose that brings flipsRemaining to 0, the phase becomes flip_result
\* and exactly one resolution is set; otherwise the phase stays flipping and
\* none is set.  No other step sets a resolution, in flip_result no flip is
\* accepted, and flipsRemaining is never negative.
C24_FlipSequenceHalts ==
    /\ [][FlipStep =>
            \E t \in SeatSet :
                /\ Len(Seat(t).stack) > 0
                /\ players'[t + 1].stack = SubSeq(Seat(t).stack, 1, Len(Seat(t).stack) - 1)
                /\ \A j \in SeatSet \ {t} : players'[j + 1].stack = Seat(j).stack
                /\ revealedCards' = Append(revealedCards,
                       [playerIndex |-> t,
                        card |-> Seat(t).stack[Len(Seat(t).stack)],
                        playerName |-> Seat(t).name])
                /\ IF \/ Seat(t).stack[Len(Seat(t).stack)] = "skull"
                      \/ JsLe(flipsRemaining', 0)
                   THEN /\ phase' = "flip_result"
                        /\ Resolutions(timers') = Resolutions(timers) + 1
                   ELSE /\ phase' = "flipping"
                        /\ Resolutions(timers') = Resolutions(timers)]_vars
    /\ [][Resolutions(timers') > Resolutions(timers) => FlipStep]_vars
    /\ []((started /\ ~crashed /\ phase = "flip_result") =>
            \A p \in SeatSet, t \in Targets : handleFlip(Room, p, t) = Room)
    /\ [](IsNum(flipsRemaining) => flipsRemaining >= 0)

\* the tokens on the stacks of the non-eliminated seats of the first k seats
RECURSIVE LiveStacks(_, _)
LiveStacks(ps, k) ==
    IF k = 0 THEN 0
    ELSE (IF ps[k].eliminated THEN 0 ELSE Len(ps[k].stack)) + LiveStacks(ps, k - 1)

\* C25: in every state with phase = flipping, currentPlayer = highestBidder
\* is a non-eliminated seat, flipsRemaining is a number from 1 to the tokens
\* on the stacks of the non-eliminated seats, and some flip of the bidder is
\* accepted.
C25_FlipperCanFlip ==
    (started /\ ~crashed /\ phase = "flipping") =>
        /\ currentPlayer = highestBidder
        /\ currentPlayer \in SeatSet
        /\ ~Seat(currentPlayer).eliminated
        /\ JsGe(flipsRemaining, 1)
        /\ JsLe(flipsRemaining, LiveStacks(players, Len(players)))
        /\ \E t \in SeatSet : handleFlip(Room, currentPlayer, t) # Room

\* C26: a room in the lobby (started = FALSE) has phase none, and no step
\* that leaves it in the lobby changes roundNum, a seat's wins, tokens or
\* eliminated flag; in a started game a round starts only from the resolution
\* of the round before (phase flip_result or penalty), never while a round is
\* in placing, bidding or flipping.
C26_LobbyIsQuiet ==
    /\ [](~started => phase = "none")
    /\ [][(~started /\ ~started' /\ Len(players') = Len(players)) =>
            /\ roundNum' = roundNum
            /\ \A k \in 1 .. Len(players) :
                  players'[k].name = players[k].name =>
                      /\ players'[k].wins = players[k].wins
                      /\ players'[k].cards = players[k].cards
                      /\ players'[k].eliminated = players[k].eliminated]_vars
    /\ [][RoundStartStep => phase \in {"flip_result", "penalty"}]_vars

\* C27: while the room exists, hostId is the identity of exactly one seat,
\* and a play-again sent by the connection of that seat is honoured.
C27_HostIsSeated ==
    (Len(players) > 0 /\ ~crashed) =>
        /\ Cardinality({i \in SeatSet : Seat(i).id = hostId}) = 1
        /\ \A i \in SeatSet :
              (Seat(i).id = hostId /\ Seat(i).connected /\ started) =>
                  playAgain(Room, Seat(i).id) # Room

\* C28: in every state the cached totalCoastersOnTable, which is what the
\* view of every socket shows, is the sum of the sizes of all stacks.
C28_CachedTableCount ==
    (Len(players) > 0 /\ ~crashed) =>
        /\ totalCoastersOnTable = countOnTable(Room)
        /\ \A s \in UsedIds :
              stateForPlayer(Room, s).totalCoastersOnTable = countOnTable(Room)

=============================================================================
